---- MODULE Spec2Model ----
(***************************************************************************)
(* Miami Heat player analysis (extract_all_data.py): salary and statistics *)
(* sheets are loaded, filtered to MIA, joined on the normalized name,      *)
(* valued, classified into archetypes and reported.                        *)
(*                                                                         *)
(* Number representation (exact fixed point instead of binary floats):     *)
(*   per-game statistics      tenths        (PTS 20.0 -> 200)              *)
(*   shooting percentages     thousandths   (FG% 0.45 -> 450)              *)
(*   salary                   units of $100,000 (10,000,000 -> 100)        *)
(*   Value Score              numerator over ScoreDen (19.152 -> 5745600)  *)
(*   Value per $M             a record: kind "num" with num/den, or one of *)
(*                            the IEEE results "inf", "-inf", "nan"        *)
(***************************************************************************)
EXTENDS Integers, Sequences, FiniteSets, TLC

VARIABLES pc, salary_file, stats_file, df, miami_sorted, player_stats,
          player_stats_mia, miami_combined, archetype_table, out

vars == <<pc, salary_file, stats_file, df, miami_sorted, player_stats,
          player_stats_mia, miami_combined, archetype_table, out>>

----------------------------------------------------------------------------
(* Bounds of the model *)

MaxNameLen == 3
MaxSalaryRows == 2
MaxStatsRows == 2
Delta == 1

----------------------------------------------------------------------------
(* Cell values *)

\* float NaN, the null of every numeric column
NaN == -2000000000
\* a cell holding text that is not a number, before pd.to_numeric
Text == -1999999999
\* the null of a text column (Pos, Team) in an unmatched row
NoStr == "NaN"
\* a Name / Player cell that is not a str (isinstance(name, str) is False)
NonText == [text |-> FALSE, s |-> <<>>]

Str(s) == [text |-> TRUE, s |-> s]

\* pd.to_numeric(..., errors="coerce")
ToNumeric(x) == IF x = Text THEN NaN ELSE x

\* pd.notnull
notnull(x) == x # NaN

\* float comparison: every comparison with NaN is False
Gt(a, b) == a # NaN /\ b # NaN /\ a > b
Lt(a, b) == a # NaN /\ b # NaN /\ a < b

\* float arithmetic: NaN propagates
Add(a, b) == IF a = NaN \/ b = NaN THEN NaN ELSE a + b
Sub(a, b) == IF a = NaN \/ b = NaN THEN NaN ELSE a - b
Mul(a, b) == IF a = NaN \/ b = NaN THEN NaN ELSE a * b

----------------------------------------------------------------------------
(* normalize_name: NFKD decomposition, then ASCII encoding with 'ignore' *)

\* the characters of the model, by name
Ascii == {"c", "f", "i"}
Chars == Ascii \cup {"c_acute", "fi_ligature", "l_stroke", "comb_acute", "comb_dot_below"}

\* full compatibility decomposition of one character
Decomp(ch) ==
  CASE ch = "c_acute"     -> <<"c", "comb_acute">>
    [] ch = "fi_ligature" -> <<"f", "i">>
    [] OTHER              -> <<ch>>

\* canonical combining class
ccc(ch) ==
  CASE ch = "comb_acute"     -> 230
    [] ch = "comb_dot_below" -> 220
    [] OTHER                 -> 0

RECURSIVE Decompose(_)
Decompose(s) == IF s = <<>> THEN <<>> ELSE Decomp(Head(s)) \o Decompose(Tail(s))

\* canonical ordering: a combining mark moves left over marks of a higher class
RECURSIVE InsertMark(_, _)
InsertMark(acc, ch) ==
  IF acc = <<>> \/ ccc(ch) = 0 \/ ccc(acc[Len(acc)]) <= ccc(ch)
  THEN Append(acc, ch)
  ELSE Append(InsertMark(SubSeq(acc, 1, Len(acc) - 1), ch), acc[Len(acc)])

RECURSIVE Reorder(_, _)
Reorder(acc, s) == IF s = <<>> THEN acc ELSE Reorder(InsertMark(acc, Head(s)), Tail(s))

NFKD(s) == Reorder(<<>>, Decompose(s))

\* .encode('ASCII', 'ignore').decode('utf-8'): non-ASCII characters are dropped
\* (variant: nothing is dropped)
EncodeKeepAll(s) == s
EncodeAsciiIgnore(s) == SelectSeq(s, LAMBDA ch : ch \in Ascii)

normalize_name(name) ==
  IF name.text THEN Str(EncodeAsciiIgnore(NFKD(name.s))) ELSE name

----------------------------------------------------------------------------
(* Columns *)

SalaryCols == {"Name", "Team", "2024-25"}
StatCols == {"PTS", "AST", "TRB", "STL", "BLK", "TOV", "FG%", "3P%", "FT%"}
StatsCols == {"Player", "Team", "Pos"} \cup StatCols

\* the null a left join puts in a column of the stats side
NullOf(c) == IF c = "Player" THEN NonText
             ELSE IF c \in {"Team", "Pos"} THEN NoStr ELSE NaN

----------------------------------------------------------------------------
(* compute_value *)

ScoreDen == 300000

\* 3000 * efficiency
\* (variant: the percentages that are there are summed, the others skipped)
EfficiencySkipNull(row) ==
  LET z(x) == IF x = NaN THEN 0 ELSE x
  IN  z(row["FG%"]) + z(row["3P%"]) + z(row["FT%"])
Efficiency(row) ==
  IF notnull(row["FG%"]) /\ notnull(row["3P%"]) /\ notnull(row["FT%"])
  THEN row["FG%"] + row["3P%"] + row["FT%"]
  ELSE 0

\* 100 * base score
\* (variants: assists at face value; a missing statistic counted as zero)
BaseScoreFlatAssists(row) ==
  Sub(Add(Add(Add(Add(Mul(10, row["PTS"]), Mul(10, row["AST"])),
                  Mul(12, row["TRB"])), Mul(20, row["STL"])),
          Mul(20, row["BLK"])), Mul(10, row["TOV"]))
BaseScoreNullAsZero(row) ==
  LET z(x) == IF x = NaN THEN 0 ELSE x
  IN  10 * z(row["PTS"]) + 15 * z(row["AST"]) + 12 * z(row["TRB"])
        + 20 * z(row["STL"]) + 20 * z(row["BLK"]) - 10 * z(row["TOV"])
BaseScore(row) ==
  Sub(Add(Add(Add(Add(Mul(10, row["PTS"]), Mul(15, row["AST"])),
                  Mul(12, row["TRB"])), Mul(20, row["STL"])),
          Mul(20, row["BLK"])), Mul(10, row["TOV"]))

\* ScoreDen * (score * efficiency)
compute_value(row) == Mul(BaseScore(row), Efficiency(row))

\* Value Score / (salary / 1e6), as pandas divides float columns
\* a finite quotient stands for num / (PerMDen * den), den > 0
PerMDen == 30000
Num(n, d) == [kind |-> "num", num |-> n, den |-> d]
Special(k) == [kind |-> k, num |-> 0, den |-> 1]

\* (variant: a division that fails on a zero or missing salary)
ValuePerMRaising(vs, sal) ==
  IF vs = NaN \/ sal = NaN \/ sal = 0 THEN Special("raise")
  ELSE IF sal > 0 THEN Num(vs, sal) ELSE Num(-vs, -sal)
ValuePerM(vs, sal) ==
  IF vs = NaN \/ sal = NaN THEN Special("nan")
  ELSE IF sal = 0
       THEN IF vs > 0 THEN Special("inf")
            ELSE IF vs < 0 THEN Special("-inf") ELSE Special("nan")
  ELSE IF sal > 0 THEN Num(vs, sal) ELSE Num(-vs, -sal)

----------------------------------------------------------------------------
(* tag_archetype *)

Wing == "3&D Wing"
Handler == "Primary Ball Handler"
StretchBig == "Stretch Big"
RimProtector == "Rim Protector"
ScoringGuard == "Scoring Guard"
RolePlayer == "Versatile / Role Player"

Labels == {Wing, Handler, StretchBig, RimProtector, ScoringGuard, RolePlayer}

\* (variant: no catch-all, the function falls off its end)
tag_archetypeNoDefault(row) ==
  IF row["Pos"] \in {"SG", "SF"} /\ Gt(row["3P%"], 360) /\ Gt(row["STL"], 7)
  THEN Wing
  ELSE IF row["Pos"] \in {"PG"} /\ Gt(row["AST"], 40)
  THEN Handler
  ELSE IF row["Pos"] \in {"PF", "C"} /\ Gt(row["3P%"], 330) /\ Gt(row["BLK"], 5)
  THEN StretchBig
  ELSE IF row["Pos"] \in {"C"} /\ Gt(row["BLK"], 10) /\ Gt(row["TRB"], 60)
  THEN RimProtector
  ELSE IF row["Pos"] \in {"SG", "PG"} /\ Gt(row["PTS"], 150) /\ Lt(row["AST"], 40)
  THEN ScoringGuard
  ELSE "None"

\* (variant: the Rim Protector rule is tried before the Stretch Big rule)
tag_archetypeRimFirst(row) ==
  IF row["Pos"] \in {"SG", "SF"} /\ Gt(row["3P%"], 360) /\ Gt(row["STL"], 7)
  THEN Wing
  ELSE IF row["Pos"] \in {"PG"} /\ Gt(row["AST"], 40)
  THEN Handler
  ELSE IF row["Pos"] \in {"C"} /\ Gt(row["BLK"], 10) /\ Gt(row["TRB"], 60)
  THEN RimProtector
  ELSE IF row["Pos"] \in {"PF", "C"} /\ Gt(row["3P%"], 330) /\ Gt(row["BLK"], 5)
  THEN StretchBig
  ELSE IF row["Pos"] \in {"SG", "PG"} /\ Gt(row["PTS"], 150) /\ Lt(row["AST"], 40)
  THEN ScoringGuard
  ELSE RolePlayer

\* (variant: the Stretch Big rule takes power forwards only)
tag_archetypeStretchPF(row) ==
  IF row["Pos"] \in {"SG", "SF"} /\ Gt(row["3P%"], 360) /\ Gt(row["STL"], 7)
  THEN Wing
  ELSE IF row["Pos"] \in {"PG"} /\ Gt(row["AST"], 40)
  THEN Handler
  ELSE IF row["Pos"] \in {"PF"} /\ Gt(row["3P%"], 330) /\ Gt(row["BLK"], 5)
  THEN StretchBig
  ELSE IF row["Pos"] \in {"C"} /\ Gt(row["BLK"], 10) /\ Gt(row["TRB"], 60)
  THEN RimProtector
  ELSE IF row["Pos"] \in {"SG", "PG"} /\ Gt(row["PTS"], 150) /\ Lt(row["AST"], 40)
  THEN ScoringGuard
  ELSE RolePlayer

tag_archetype(row) ==
  IF row["Pos"] \in {"SG", "SF"} /\ Gt(row["3P%"], 360) /\ Gt(row["STL"], 7)
  THEN Wing
  ELSE IF row["Pos"] \in {"PG"} /\ Gt(row["AST"], 40)
  THEN Handler
  ELSE IF row["Pos"] \in {"PF", "C"} /\ Gt(row["3P%"], 330) /\ Gt(row["BLK"], 5)
  THEN StretchBig
  ELSE IF row["Pos"] \in {"C"} /\ Gt(row["BLK"], 10) /\ Gt(row["TRB"], 60)
  THEN RimProtector
  ELSE IF row["Pos"] \in {"SG", "PG"} /\ Gt(row["PTS"], 150) /\ Lt(row["AST"], 40)
  THEN ScoringGuard
  ELSE RolePlayer

----------------------------------------------------------------------------
(* Frames: a set of columns and a sequence of rows, each row a function on  *)
(* the columns                                                              *)

Frame(cols, rows) == [cols |-> cols, rows |-> rows]
NoFrame == Frame({}, <<>>)

WithCol(row, c, v) == [x \in DOMAIN row \cup {c} |-> IF x = c THEN v ELSE row[x]]
WithoutCol(row, c) == [x \in DOMAIN row \ {c} |-> row[x]]

\* a >= b in a descending sort of a float column, NaN last
FloatDesc(a, b) == b = NaN \/ (a # NaN /\ a >= b)

\* the same for the Value per $M column
QuotGe(a, b) ==
  CASE a.kind = "inf" -> TRUE
    [] b.kind = "-inf" -> TRUE
    [] a.kind = "-inf" -> FALSE
    [] b.kind = "inf" -> FALSE
    [] OTHER -> a.num * b.den >= b.num * a.den
QuotDesc(a, b) == b.kind = "nan" \/ (a.kind # "nan" /\ QuotGe(a, b))

\* the descending order of a column: quotients for Value per $M, floats else
Desc(col, a, b) == IF col = "Value per $M" THEN QuotDesc(a, b) ELSE FloatDesc(a, b)

\* sort_values(by=col, ascending=False): the order of ties is not specified,
\* so every descending arrangement is a possible result (of equal rows, the
\* first stands for all)
RECURSIVE Orders(_, _, _)
Orders(rows, col, S) ==
  IF S = {} THEN {<<>>}
  ELSE UNION {{<<rows[i]>> \o rest : rest \in Orders(rows, col, S \ {i})} :
                i \in {k \in S : /\ \A j \in S : Desc(col, rows[k][col], rows[j][col])
                                 /\ \A j \in S : rows[j] = rows[k] => k <= j}}
SortValues(rows, col) == Orders(rows, col, DOMAIN rows)

----------------------------------------------------------------------------
(* The merge: miami_sorted.merge(player_stats_mia, on="Normalized Name",    *)
(* how="left", suffixes=("_salary", "_stats"))                              *)

Key == "Normalized Name"

\* "Team" is on both sides and gets the suffixes; no other column collides
Joined(l, r) ==
  [c \in (DOMAIN l \ {"Team"}) \cup {"Team_salary", "Team_stats"} \cup (DOMAIN r \ {"Team"}) |->
     CASE c = "Team_salary" -> l["Team"]
       [] c = "Team_stats"  -> r["Team"]
       [] c \in DOMAIN l    -> l[c]
       [] OTHER             -> r[c]]

NullRow(rcols) == [c \in rcols |-> NullOf(c)]

\* the stats rows a salary row is joined with: every row with an equal key, in
\* the order of the stats side; the null row when there is none
Matches(l, right, rcols) ==
  LET m == SelectSeq(right, LAMBDA r : r[Key] = l[Key])
  IN  IF m = <<>> THEN <<NullRow(rcols)>> ELSE m

RECURSIVE LeftJoin(_, _, _)
LeftJoin(left, right, rcols) ==
  IF left = <<>> THEN <<>>
  ELSE LET l == Head(left)
           m == Matches(l, right, rcols)
       IN  [k \in DOMAIN m |-> Joined(l, m[k])] \o LeftJoin(Tail(left), right, rcols)

----------------------------------------------------------------------------
(* The script, top to bottom *)

Abort ==
  /\ pc' = "aborted"
  /\ UNCHANGED <<salary_file, stats_file, df, miami_sorted, player_stats,
                 player_stats_mia, miami_combined, archetype_table, out>>

\* df.rename(columns={"Player": "Name", "Tm": "Team"})
RenameCol(c) == CASE c = "Player" -> "Name" [] c = "Tm" -> "Team" [] OTHER -> c
RawCol(c) == CASE c = "Name" -> "Player" [] c = "Team" -> "Tm" [] OTHER -> c
Renamed(row) == [c \in {RenameCol(x) : x \in DOMAIN row} |-> row[RawCol(c)]]

\* lines 38-45: read the salary sheet, promote the header row, rename
LoadSalary ==
  /\ pc = "load_salary"
  /\ IF salary_file.kind # "ok"
     THEN Abort
     ELSE /\ df' = Frame({RenameCol(c) : c \in salary_file.cols},
                         [i \in DOMAIN salary_file.rows |-> Renamed(salary_file.rows[i])])
          /\ pc' = "filter_salary"
          /\ UNCHANGED <<salary_file, stats_file, miami_sorted, player_stats,
                         player_stats_mia, miami_combined, archetype_table, out>>

\* lines 53-62: MIA rows, numeric salary, normalized name, sorted by salary
FilterSalary ==
  /\ pc = "filter_salary"
  /\ IF ~({"Team", "2024-25", "Name"} \subseteq df.cols)
     THEN Abort
     ELSE LET mia == SelectSeq(df.rows, LAMBDA r : r["Team"] = "MIA")
              num == [i \in DOMAIN mia |-> WithCol(mia[i], "2024-25", ToNumeric(mia[i]["2024-25"]))]
              key == [i \in DOMAIN num |-> WithCol(num[i], Key, normalize_name(num[i]["Name"]))]
          IN  /\ \E sorted \in SortValues(key, "2024-25") :
                   miami_sorted' = Frame(df.cols \cup {Key}, sorted)
              /\ pc' = "load_stats"
              /\ UNCHANGED <<salary_file, stats_file, df, player_stats,
                             player_stats_mia, miami_combined, archetype_table, out>>

\* (variant: a missing statistics sheet is read as a sheet without rows)
LoadStatsSwallow ==
  /\ pc = "load_stats"
  /\ player_stats' = IF stats_file.kind # "ok" THEN Frame(StatsCols, <<>>)
                     ELSE Frame(stats_file.cols, stats_file.rows)
  /\ pc' = "filter_stats"
  /\ UNCHANGED <<salary_file, stats_file, df, miami_sorted,
                 player_stats_mia, miami_combined, archetype_table, out>>

\* line 70: read the statistics sheet
LoadStats ==
  /\ pc = "load_stats"
  /\ IF stats_file.kind # "ok"
     THEN Abort
     ELSE /\ player_stats' = Frame(stats_file.cols, stats_file.rows)
          /\ pc' = "filter_stats"
          /\ UNCHANGED <<salary_file, stats_file, df, miami_sorted,
                         player_stats_mia, miami_combined, archetype_table, out>>

\* lines 73-76: MIA rows, normalized name
FilterStats ==
  /\ pc = "filter_stats"
  /\ IF ~({"Team", "Player"} \subseteq player_stats.cols)
     THEN Abort
     ELSE LET mia == SelectSeq(player_stats.rows, LAMBDA r : r["Team"] = "MIA")
              key == [i \in DOMAIN mia |-> WithCol(mia[i], Key, normalize_name(mia[i]["Player"]))]
          IN  /\ player_stats_mia' = Frame(player_stats.cols \cup {Key}, key)
              /\ pc' = "merge"
              /\ UNCHANGED <<salary_file, stats_file, df, miami_sorted, player_stats,
                             miami_combined, archetype_table, out>>

\* lines 85-99: left join, drop the key, numeric salary, sorted by salary
Merge ==
  /\ pc = "merge"
  /\ LET joined == LeftJoin(miami_sorted.rows, player_stats_mia.rows, player_stats_mia.cols)
         dropped == [i \in DOMAIN joined |-> WithoutCol(joined[i], Key)]
         num == [i \in DOMAIN dropped |->
                   WithCol(dropped[i], "2024-25", ToNumeric(dropped[i]["2024-25"]))]
         cols == ((miami_sorted.cols \cup player_stats_mia.cols) \ {"Team", Key})
                   \cup {"Team_salary", "Team_stats"}
     IN  \E sorted \in SortValues(num, "2024-25") :
           miami_combined' = Frame(cols, sorted)
  /\ pc' = "coerce"
  /\ UNCHANGED <<salary_file, stats_file, df, miami_sorted, player_stats,
                 player_stats_mia, archetype_table, out>>

\* lines 107-108: the nine statistics become numeric
Coerce ==
  /\ pc = "coerce"
  /\ IF ~(StatCols \subseteq miami_combined.cols)
     THEN Abort
     ELSE /\ miami_combined' =
               Frame(miami_combined.cols,
                     [i \in DOMAIN miami_combined.rows |->
                        [c \in DOMAIN miami_combined.rows[i] |->
                           IF c \in StatCols THEN ToNumeric(miami_combined.rows[i][c])
                           ELSE miami_combined.rows[i][c]]])
          /\ pc' = "value"
          /\ UNCHANGED <<salary_file, stats_file, df, miami_sorted, player_stats,
                         player_stats_mia, archetype_table, out>>

\* lines 141-148: Value Score, Value per $M, sorted by Value per $M.
\* On a frame without rows apply() returns a frame, and assigning it to the
\* single column "Value Score" raises ValueError.
Valuation ==
  /\ pc = "value"
  /\ IF miami_combined.rows = <<>>
     THEN Abort
     ELSE LET rows == miami_combined.rows
              vs == [i \in DOMAIN rows |-> WithCol(rows[i], "Value Score", compute_value(rows[i]))]
              vpm == [i \in DOMAIN vs |->
                        WithCol(vs[i], "Value per $M",
                                ValuePerM(vs[i]["Value Score"], vs[i]["2024-25"]))]
          IN  /\ \E sorted \in SortValues(vpm, "Value per $M") :
                   miami_combined' =
                     Frame(miami_combined.cols \cup {"Value Score", "Value per $M"}, sorted)
              /\ pc' = "classify"
              /\ UNCHANGED <<salary_file, stats_file, df, miami_sorted, player_stats,
                             player_stats_mia, archetype_table, out>>

\* value_counts(): how many rows carry each label that occurs
ValueCounts(rows, col) ==
  [v \in {rows[i][col] : i \in DOMAIN rows} |->
     Cardinality({i \in DOMAIN rows : rows[i][col] = v})]

\* lines 184-189: Archetype column and the count of players per archetype
Classify ==
  /\ pc = "classify"
  /\ IF "Pos" \notin miami_combined.cols
     THEN Abort
     ELSE LET rows == miami_combined.rows
              tagged == [i \in DOMAIN rows |-> WithCol(rows[i], "Archetype", tag_archetype(rows[i]))]
          IN  /\ miami_combined' = Frame(miami_combined.cols \cup {"Archetype"}, tagged)
              /\ archetype_table' = ValueCounts(tagged, "Archetype")
              /\ pc' = "report_valuation"
              /\ UNCHANGED <<salary_file, stats_file, df, miami_sorted, player_stats,
                             player_stats_mia, out>>

ReportCols == {"Name", "Pos", "2024-25"} \cup StatCols
                \cup {"Value Score", "Value per $M", "Archetype"}

\* lines 197-201: the valuation table
ReportValuation ==
  /\ pc = "report_valuation"
  /\ out' = Append(out, [report |-> "valuation",
                         body |-> [i \in DOMAIN miami_combined.rows |->
                                    [c \in ReportCols |-> miami_combined.rows[i][c]]]])
  /\ pc' = "report_archetypes"
  /\ UNCHANGED <<salary_file, stats_file, df, miami_sorted, player_stats,
                 player_stats_mia, miami_combined, archetype_table>>

\* groupby("Archetype")["Name"].apply(list)
ArchetypeSummary(rows) ==
  [a \in {rows[i]["Archetype"] : i \in DOMAIN rows} |->
     LET members == SelectSeq(rows, LAMBDA r : r["Archetype"] = a)
     IN  [i \in DOMAIN members |-> members[i]["Name"]]]

\* lines 209-227: the archetype counts, then the names per archetype
ReportArchetypes ==
  /\ pc = "report_archetypes"
  /\ out' = out \o <<[report |-> "archetype_table", body |-> archetype_table],
                     [report |-> "archetype_names",
                      body |-> ArchetypeSummary(miami_combined.rows)]>>
  /\ pc' = "report_contracts"
  /\ UNCHANGED <<salary_file, stats_file, df, miami_sorted, player_stats,
                 player_stats_mia, miami_combined, archetype_table>>

\* lines 236-300, reduced to the player, position and status columns
heat_fa_status ==
  << [Player |-> "Duncan Robinson",  Pos |-> "SF", Status |-> "Player Option / $19.9M"],
     [Player |-> "Davion Mitchell",  Pos |-> "PG", Status |-> "Restricted FA / Bird"],
     [Player |-> "Jaime Jaquez Jr.", Pos |-> "SF", Status |-> "Club Option / $3.9M"],
     [Player |-> "Keshad Johnson",   Pos |-> "PF", Status |-> "Club Option / $2.0M"],
     [Player |-> "Isaiah Stevens",   Pos |-> "PG", Status |-> "Two-Way RFA"],
     [Player |-> "Josh Christopher", Pos |-> "SG", Status |-> "Two-Way RFA"],
     [Player |-> "Dru Smith",        Pos |-> "SG", Status |-> "Unclear"] >>

\* lines 303-307: the contract status table; df is reused for it
ReportContracts ==
  /\ pc = "report_contracts"
  /\ df' = Frame({"Player", "Pos", "Status"}, heat_fa_status)
  /\ out' = Append(out, [report |-> "contract_status", body |-> heat_fa_status])
  /\ pc' = "done"
  /\ UNCHANGED <<salary_file, stats_file, miami_sorted, player_stats,
                 player_stats_mia, miami_combined, archetype_table>>

----------------------------------------------------------------------------
(* Inputs *)

RECURSIVE SeqsUpTo(_, _)
SeqsUpTo(S, n) ==
  IF n = 0 THEN {<<>>}
  ELSE LET shorter == SeqsUpTo(S, n - 1)
       IN  shorter \cup {Append(q, x) : q \in {r \in shorter : Len(r) = n - 1}, x \in S}

\* a row of the salary sheet, under the columns the sheet has
SalaryRow(name, tm, sal) ==
  [c \in {"Player", "Tm", "2024-25"} |->
     CASE c = "Player" -> name [] c = "Tm" -> tm [] OTHER -> sal]

\* a row of the statistics sheet
StatsRow(name, team, pos, line) ==
  [c \in StatsCols |->
     CASE c = "Player" -> name [] c = "Team" -> team [] c = "Pos" -> pos
       [] OTHER -> line[c]]

StatLine(pts, ast, trb, stl, blk, tov, fg, tp, ft) ==
  [c \in StatCols |->
     CASE c = "PTS" -> pts [] c = "AST" -> ast [] c = "TRB" -> trb
       [] c = "STL" -> stl [] c = "BLK" -> blk [] c = "TOV" -> tov
       [] c = "FG%" -> fg  [] c = "3P%" -> tp  [] OTHER -> ft]

Restrict(row, cols) == [c \in cols |-> row[c]]

\* two spellings of one name, a different name, two spellings of a third
Plain == Str(<<"c">>)
Accented == Str(<<"c_acute">>)
Other == Str(<<"f">>)
Spelled == Str(<<"f", "i">>)
Ligature == Str(<<"fi_ligature">>)

\* the guard of the scenario, a centre who shoots, a guard whose FT% cell is
\* text, a guard whose AST cell is empty
GuardLine == StatLine(200, 60, 40, 10, 2, 20, 450, 380, 850)
CentreLine == StatLine(120, 20, 80, 5, 15, 15, 550, 350, 700)
NoFTLine == StatLine(160, 30, 30, 5, 3, 10, 430, 370, Text)
NoASTLine == StatLine(160, NaN, 30, 5, 3, 10, 430, 350, 800)

\* salary rows: two spellings of a name, a zero salary, a salary cell that is
\* text, a row with neither name nor salary, a row of another team
SalaryRows ==
  {SalaryRow(Plain, "MIA", 100), SalaryRow(Accented, "MIA", 0),
   SalaryRow(Other, "MIA", 0), SalaryRow(Spelled, "MIA", Text),
   SalaryRow(NonText, "MIA", NaN), SalaryRow(Other, "BOS", 50)}

StatsRows ==
  {StatsRow(Plain, "MIA", "PG", GuardLine), StatsRow(Accented, "MIA", "SG", NoASTLine),
   StatsRow(Other, "MIA", "C", CentreLine), StatsRow(Ligature, "MIA", "SG", NoFTLine),
   StatsRow(Plain, "BOS", "PG", GuardLine)}

SalaryFiles ==
  {[kind |-> "ok", cols |-> {"Player", "Tm", "2024-25"}, rows |-> rows] :
     rows \in SeqsUpTo(SalaryRows, MaxSalaryRows)}
    \cup {[kind |-> k, cols |-> {}, rows |-> <<>>] : k \in {"missing", "empty"}}
    \cup {[kind |-> "ok", cols |-> {"Player", "Tm", "2024-25"} \ {c},
           rows |-> <<Restrict(SalaryRow(Plain, "MIA", 100), {"Player", "Tm", "2024-25"} \ {c})>>] :
            c \in {"Player", "Tm", "2024-25"}}

StatsFiles ==
  {[kind |-> "ok", cols |-> StatsCols, rows |-> rows] :
     rows \in SeqsUpTo(StatsRows, MaxStatsRows)}
    \cup {[kind |-> "missing", cols |-> {}, rows |-> <<>>]}
    \cup {[kind |-> "ok", cols |-> StatsCols \ {c},
           rows |-> <<Restrict(StatsRow(Plain, "MIA", "PG", GuardLine), StatsCols \ {c})>>] :
            c \in StatsCols}

----------------------------------------------------------------------------
(* The whole run *)

Init ==
  /\ pc = "load_salary"
  /\ salary_file \in SalaryFiles
  /\ stats_file \in StatsFiles
  /\ df = NoFrame
  /\ miami_sorted = NoFrame
  /\ player_stats = NoFrame
  /\ player_stats_mia = NoFrame
  /\ miami_combined = NoFrame
  /\ archetype_table = <<>>
  /\ out = <<>>

Next ==
  \/ LoadSalary
  \/ FilterSalary
  \/ LoadStats
  \/ FilterStats
  \/ Merge
  \/ Coerce
  \/ Valuation
  \/ Classify
  \/ ReportValuation
  \/ ReportArchetypes
  \/ ReportContracts

Spec == Init /\ [][Next]_vars

----------------------------------------------------------------------------
(* Runs on one player, for the functions applied row by row *)

OneSalary(name, sal) ==
  [kind |-> "ok", cols |-> {"Player", "Tm", "2024-25"},
   rows |-> <<SalaryRow(name, "MIA", sal)>>]
OneStats(name, pos, line) ==
  [kind |-> "ok", cols |-> StatsCols, rows |-> <<StatsRow(name, "MIA", pos, line)>>]

InitWith(sfile, pfile) ==
  /\ pc = "load_salary"
  /\ salary_file = sfile
  /\ stats_file = pfile
  /\ df = NoFrame
  /\ miami_sorted = NoFrame
  /\ player_stats = NoFrame
  /\ player_stats_mia = NoFrame
  /\ miami_combined = NoFrame
  /\ archetype_table = <<>>
  /\ out = <<>>

\* positions: the five of the rules, another text, and an empty cell
Positions == {"PG", "SG", "SF", "PF", "C", "G", NoStr}

\* statistics at a threshold of the rules and up to Delta above it, or empty
Near(t) == t..(t + Delta)
Around(t) == (t - Delta)..(t + Delta)

InitArchetype ==
  \E pos \in Positions,
     tp \in Near(330) \cup Near(360) \cup {NaN},
     stl \in Near(7) \cup {NaN},
     ast \in Around(40) \cup {NaN},
     blk \in Near(5) \cup Near(10) \cup {NaN},
     trb \in Near(60) \cup {NaN},
     pts \in Near(150) \cup {NaN} :
    InitWith(OneSalary(Plain, 100),
             OneStats(Plain, pos, StatLine(pts, ast, trb, stl, blk, 10, 450, tp, 800)))

SpecArchetype == InitArchetype /\ [][Next]_vars

\* statistics of the scenario, other values, or empty; salary present, zero,
\* empty or text
InitValue ==
  \E pos \in {"PG", "C"},
     sal \in {100, 35, 0, NaN, Text},
     pts \in {200, 0, NaN}, ast \in {60, NaN}, trb \in {40, NaN},
     stl \in {10, NaN}, blk \in {2, NaN}, tov \in {20, 400, NaN},
     fg \in {450, NaN}, tp \in {380, 0, NaN}, ft \in {850, NaN} :
    InitWith(OneSalary(Plain, sal),
             OneStats(Plain, pos, StatLine(pts, ast, trb, stl, blk, tov, fg, tp, ft)))

SpecValue == InitValue /\ [][Next]_vars

\* names of up to MaxNameLen characters, or a cell that is not text
Names == {Str(s) : s \in SeqsUpTo(Chars, MaxNameLen)} \cup {NonText}

InitNorm ==
  \E name \in Names :
    InitWith(OneSalary(name, 100), OneStats(name, "PG", GuardLine))

SpecNorm == InitNorm /\ [][Next]_vars

----------------------------------------------------------------------------
(* Properties *)

Combined == {miami_combined.rows[i] : i \in DOMAIN miami_combined.rows}
Valued == {r \in Combined : "Value per $M" \in DOMAIN r}
Tagged == {r \in Combined : "Archetype" \in DOMAIN r}

Rule1(r) == r["Pos"] \in {"SG", "SF"} /\ r["3P%"] # NaN /\ r["3P%"] > 360
              /\ r["STL"] # NaN /\ r["STL"] > 7
Rule2(r) == r["Pos"] = "PG" /\ r["AST"] # NaN /\ r["AST"] > 40
Rule3(r) == r["Pos"] \in {"PF", "C"} /\ r["3P%"] # NaN /\ r["3P%"] > 330
              /\ r["BLK"] # NaN /\ r["BLK"] > 5
Rule4(r) == r["Pos"] = "C" /\ r["BLK"] # NaN /\ r["BLK"] > 10
              /\ r["TRB"] # NaN /\ r["TRB"] > 60
Rule5(r) == r["Pos"] \in {"SG", "PG"} /\ r["PTS"] # NaN /\ r["PTS"] > 150
              /\ r["AST"] # NaN /\ r["AST"] < 40

\* C1: whatever the position (one of the five, another value, or null) and
\* whatever the statistics (numbers or null), classification does not abort
\* the run and gives every merged row exactly one of the six labels.
C1_TotalSixLabels ==
  /\ pc # "aborted"
  /\ pc \in {"report_valuation", "report_archetypes", "report_contracts", "done"}
       => /\ Combined # {}
          /\ Tagged = Combined
          /\ \A r \in Combined : r["Archetype"] \in Labels
          /\ \A r \in Combined : archetype_table[r["Archetype"]] >= 1

\* a row whose position is unknown or null and whose 3P% and AST are null has
\* been labelled
C1_Witness ==
  \E r \in Tagged : r["Pos"] \in {"G", NoStr} /\ r["3P%"] = NaN /\ r["AST"] = NaN
                     /\ r["Archetype"] = RolePlayer

\* C2: the rules are tried in the order 1..6 and the first one that holds
\* decides; a centre with 3P% > 0.33, BLK > 1.0 and TRB > 6 satisfies rules 3
\* and 4 and is a "Stretch Big".
C2_FirstRuleWins ==
  \A r \in Tagged :
    /\ r["Archetype"] = Wing <=> Rule1(r)
    /\ r["Archetype"] = Handler <=> ~Rule1(r) /\ Rule2(r)
    /\ r["Archetype"] = StretchBig <=> ~Rule1(r) /\ ~Rule2(r) /\ Rule3(r)
    /\ r["Archetype"] = RimProtector <=> ~Rule1(r) /\ ~Rule2(r) /\ ~Rule3(r) /\ Rule4(r)
    /\ r["Archetype"] = ScoringGuard <=>
         ~Rule1(r) /\ ~Rule2(r) /\ ~Rule3(r) /\ ~Rule4(r) /\ Rule5(r)
    /\ (r["Pos"] = "C" /\ r["3P%"] # NaN /\ r["3P%"] > 330 /\ r["BLK"] # NaN
          /\ r["BLK"] > 10 /\ r["TRB"] # NaN /\ r["TRB"] > 60)
         => r["Archetype"] = StretchBig

C2_Witness ==
  \E r \in Tagged : Rule3(r) /\ Rule4(r) /\ r["Archetype"] = StretchBig

\* C10: a "Rim Protector" is a centre with BLK > 1.0, TRB > 6 and a 3P% that is
\* null or at most 0.33; no centre with 3P% > 0.33 is a "Rim Protector".
C10_RimProtector ==
  \A r \in Tagged :
    /\ r["Archetype"] = RimProtector
         => /\ r["Pos"] = "C"
            /\ r["BLK"] # NaN /\ r["BLK"] > 10
            /\ r["TRB"] # NaN /\ r["TRB"] > 60
            /\ (r["3P%"] = NaN \/ r["3P%"] <= 330)
    /\ (r["Pos"] = "C" /\ r["3P%"] # NaN /\ r["3P%"] > 330)
         => r["Archetype"] # RimProtector

C10_Witness ==
  /\ \E r \in Tagged : r["Archetype"] = RimProtector /\ r["3P%"] = NaN
  /\ pc = "done"

\* the six statistics of the base score are all there
SixPresent(r) == \A c \in {"PTS", "AST", "TRB", "STL", "BLK", "TOV"} : r[c] # NaN
ThreePresent(r) == \A c \in {"FG%", "3P%", "FT%"} : r[c] # NaN

\* 100 * (PTS + 1.5 AST + 1.2 TRB + 2 STL + 2 BLK - TOV), all six present
Weighted(r) ==
  10 * r["PTS"] + 15 * r["AST"] + 12 * r["TRB"] + 20 * r["STL"] + 20 * r["BLK"]
    - 10 * r["TOV"]

Scenario(r) ==
  /\ r["2024-25"] = 100 /\ r["Pos"] = "PG"
  /\ r["PTS"] = 200 /\ r["AST"] = 60 /\ r["TRB"] = 40 /\ r["STL"] = 10
  /\ r["BLK"] = 2 /\ r["TOV"] = 20
  /\ r["FG%"] = 450 /\ r["3P%"] = 380 /\ r["FT%"] = 850

\* C7: with all nine statistics and a non-zero salary, Value Score is
\* (PTS + 1.5 AST + 1.2 TRB + 2 STL + 2 BLK - TOV) * ((FG% + 3P% + FT%) / 3) and
\* Value per $M is Value Score / (salary / 1e6); the scenario row has Value
\* Score 19.152, Value per $M 1.9152 and the label "Primary Ball Handler".
\* (num / (PerMDen * den) = (Value Score / ScoreDen) / (salary / 10), and
\* ScoreDen = 10 * PerMDen.)
C7_ValueFormula ==
  \A r \in Valued :
    /\ (SixPresent(r) /\ ThreePresent(r) /\ r["2024-25"] # NaN /\ r["2024-25"] # 0)
         => /\ r["Value Score"] = Weighted(r) * (r["FG%"] + r["3P%"] + r["FT%"])
            /\ r["Value per $M"].kind = "num"
            /\ r["Value per $M"].num * r["2024-25"] = r["Value Score"] * r["Value per $M"].den
    /\ Scenario(r)
         => /\ Weighted(r) = 3420
            /\ r["FG%"] + r["3P%"] + r["FT%"] = 3 * 560
            /\ r["Value Score"] = 19152 * (ScoreDen \div 1000)
            /\ r["Value per $M"].kind = "num"
            /\ r["Value per $M"].num =
                 ((19152 * PerMDen) \div 10000) * r["Value per $M"].den
            /\ "Archetype" \in DOMAIN r => r["Archetype"] = Handler

C7_Witness == pc = "done" /\ \E r \in Tagged : Scenario(r)

Merged == pc \in {"coerce", "value", "classify", "report_valuation",
                  "report_archetypes", "report_contracts", "done"}
Reported == pc \in {"report_archetypes", "report_contracts", "done"}

\* how often a salary row (name and salary) occurs among rows
Occurrences(rows, name, sal) ==
  Cardinality({i \in DOMAIN rows : rows[i]["Name"] = name /\ rows[i]["2024-25"] = sal})

\* C3: the merged result has as many rows as the salary row-set, and every
\* salary row is in it exactly as often as in the salary row-set, also when
\* several statistics rows share a normalized name.
C3_LeftJoinCardinality ==
  Merged =>
    /\ Len(miami_combined.rows) = Len(miami_sorted.rows)
    /\ \A i \in DOMAIN miami_sorted.rows :
         LET l == miami_sorted.rows[i]
         IN  Occurrences(miami_combined.rows, l["Name"], l["2024-25"])
               = Occurrences(miami_sorted.rows, l["Name"], l["2024-25"])

\* the salary row has no statistics row with its normalized name
Unmatched(r) ==
  \A j \in DOMAIN player_stats_mia.rows :
    player_stats_mia.rows[j][Key] # normalize_name(r["Name"])

BothSheetsComplete ==
  /\ salary_file.kind = "ok" /\ salary_file.cols = {"Player", "Tm", "2024-25"}
  /\ stats_file.kind = "ok" /\ stats_file.cols = StatsCols

\* C4: a salary row without a statistics row does not stop the run; its merged
\* record has null statistics, a null Value Score and the label "Versatile /
\* Role Player".  A null statistic fails every comparison of the rules (it is
\* not read as zero), so no rule that compares it gives the label.
C4_JoinMiss ==
  /\ \A r \in Combined :
       (Merged /\ Unmatched(r)) =>
         /\ \A c \in StatCols \cap DOMAIN r : r[c] = NaN
         /\ "Pos" \in DOMAIN r => r["Pos"] = NoStr
         /\ "Value Score" \in DOMAIN r => r["Value Score"] = NaN
         /\ "Archetype" \in DOMAIN r => r["Archetype"] = RolePlayer
  /\ (pc = "aborted" /\ BothSheetsComplete) => Combined = {}
  /\ \A r \in Tagged :
       /\ r["3P%"] = NaN => r["Archetype"] \notin {Wing, StretchBig}
       /\ r["STL"] = NaN => r["Archetype"] # Wing
       /\ r["AST"] = NaN => r["Archetype"] \notin {Handler, ScoringGuard}
       /\ r["BLK"] = NaN => r["Archetype"] \notin {StretchBig, RimProtector}
       /\ r["TRB"] = NaN => r["Archetype"] # RimProtector
       /\ r["PTS"] = NaN => r["Archetype"] # ScoringGuard

C4_Witness ==
  /\ pc = "done"
  /\ \E r \in Tagged : Unmatched(r) /\ r["Value Score"] = NaN /\ r["Archetype"] = RolePlayer
  /\ \E r \in Tagged : ~Unmatched(r) /\ r["AST"] = NaN /\ r["PTS"] # NaN

\* C6: a zero or missing salary does not stop the run: Value per $M of the row
\* is infinite or null, and the row is in the valuation table that is printed.
C6_ZeroSalary ==
  /\ \A r \in Valued :
       r["2024-25"] \in {0, NaN} => r["Value per $M"].kind \in {"inf", "-inf", "nan"}
  /\ (pc = "aborted" /\ BothSheetsComplete) => Combined = {}
  /\ Reported =>
       /\ out[1].report = "valuation"
       /\ \A i \in DOMAIN miami_sorted.rows :
            LET l == miami_sorted.rows[i]
            IN  l["2024-25"] \in {0, NaN} =>
                  \E k \in DOMAIN out[1].body :
                    /\ out[1].body[k]["Name"] = l["Name"]
                    /\ out[1].body[k]["2024-25"] = l["2024-25"]
                    /\ out[1].body[k]["Value per $M"].kind \in {"inf", "-inf", "nan"}

C6_Witness ==
  /\ pc = "done"
  /\ \E k \in DOMAIN out[1].body :
       out[1].body[k]["2024-25"] = 0 /\ out[1].body[k]["Value per $M"].kind = "inf"
  /\ \E k \in DOMAIN out[1].body :
       out[1].body[k]["2024-25"] = NaN /\ out[1].body[k]["Value Score"] # NaN

SalarySourceMissing ==
  salary_file.kind # "ok" \/ ~({"Player", "Tm", "2024-25"} \subseteq salary_file.cols)
StatsSourceMissing ==
  stats_file.kind # "ok" \/ ~({"Player", "Team"} \subseteq stats_file.cols)

C8_NormalizeIdempotent ==
  \A i \in DOMAIN miami_sorted.rows :
    LET name == miami_sorted.rows[i]["Name"]
        n == miami_sorted.rows[i][Key]
    IN  /\ normalize_name(n) = n
        /\ name.text => (n.text /\ \A k \in DOMAIN n.s : n.s[k] \in Ascii)
        /\ ~name.text => n = name

C8_Witness ==
  \E i \in DOMAIN miami_sorted.rows :
    /\ miami_sorted.rows[i]["Name"] = Str(<<"c_acute", "l_stroke">>)
    /\ miami_sorted.rows[i][Key] = Str(<<"c">>)

====
